---- MODULE Spec2Model ----
(***************************************************************************)
(* Model of capital-rx/src/report.py: the streaming top-N NADAC price      *)
(* change report.  One call of generate_nadac_top_price_change_report      *)
(* reads the records of the comparison file one at a time, keeps two       *)
(* heapq min-heaps of at most `count` (magnitude, ndc_desc) tuples, then   *)
(* drains each heap into a section of the report.                          *)
(*                                                                         *)
(* Text is modelled as a sequence of character codes (digits 0..9, 10 for  *)
(* "/", 11 for a letter).  A price text is the digit string of an amount   *)
(* in thousandths of a dollar, so that rounding to cents is not the        *)
(* identity.  Report text is a sequence of tokens: a header, the content   *)
(* of a body line, or a line break.                                        *)
(***************************************************************************)
EXTENDS Integers, Sequences, FiniteSets, TLC

VARIABLES
    year,             \* argument of the call
    count,            \* argument of the call
    file,             \* the records of the data file (SpecTwice); <<>> when streamed
    row,              \* number of records the reader has yielded in this call
    run,              \* 1 for the first call, 2 for the second
    entry,            \* the loop variable: the record being processed
    seen,             \* history: the records yielded so far in this call
    reoffered,        \* history: the record just yielded carries a pair seen before and not held
    increases_heap,   \* list kept as a heapq min-heap
    decreases_heap,   \* list kept as a heapq min-heap
    pc,               \* position of the call
    body_lines,       \* local of generate_partial_report
    increases_report, \* local of generate_nadac_top_price_change_report
    kept,             \* history: the two heaps as build_heaps_from_file returned them
    results           \* outcome of each finished call, oldest first

vars == <<year, count, file, row, run, entry, seen, reoffered, increases_heap, decreases_heap,
          pc, body_lines, increases_report, kept, results>>

----------------------------------------------------------------------------
(* Bounds of the model *)

MaxRecords == 4

MaxCount == 3

MaxFile == 2

----------------------------------------------------------------------------
(* Text values *)

REPORT_TYPE_INCREASES == "increases"

REPORT_TYPE_DECREASES == "decreases"

NEWLINE == <<[kind |-> "newline"]>>

Date2020 == <<0, 1, 10, 0, 1, 10, 2, 0, 2, 0>>

Date2019 == <<0, 1, 10, 0, 1, 10, 2, 0, 1, 9>>

DateBlank == <<>>

DescA == <<11>>

DescB == <<12>>

NotNumeric == <<11, 11>>

Years == {2019, 2020}

IsDigit(c) == c \in 0..9

RECURSIVE StrOfNat(_)
StrOfNat(n) == IF n < 10 THEN <<n>> ELSE StrOfNat(n \div 10) \o <<n % 10>>

\* str(year)
StrOfInt(n) == StrOfNat(n)

\* s.endswith(suffix)
EndsWith(s, suffix) ==
    /\ Len(suffix) <= Len(s)
    /\ SubSeq(s, Len(s) - Len(suffix) + 1, Len(s)) = suffix

\* float(s) raises ValueError unless s is a number
Parseable(s) == Len(s) > 0 /\ \A i \in 1..Len(s) : IsDigit(s[i])

RECURSIVE DigitsValue(_)
DigitsValue(s) ==
    IF Len(s) = 0 THEN 0
    ELSE 10 * DigitsValue(SubSeq(s, 1, Len(s) - 1)) + s[Len(s)]

\* float(s) of a parseable s, in thousandths of a dollar
Float(s) == DigitsValue(s)

\* Python's str < str
RECURSIVE StrLess(_, _)
StrLess(s, t) ==
    IF Len(t) = 0 THEN FALSE
    ELSE IF Len(s) = 0 THEN TRUE
    ELSE IF s[1] # t[1] THEN s[1] < t[1]
    ELSE StrLess(Tail(s), Tail(t))

TupleLessMagnitudeOnly(x, y) == x[1] < y[1]

\* Python's tuple < tuple on (magnitude, ndc_desc)
TupleLess(x, y) == x[1] < y[1] \/ (x[1] = y[1] /\ StrLess(x[2], y[2]))

----------------------------------------------------------------------------
(* The records the reader may yield *)

Entry(desc, old, new, date) ==
    [ndc_desc |-> desc, old_price |-> old, new_price |-> new,
     effective_date |-> date]

Records ==
    { Entry(d, <<1, 0>>, n, Date2020) :
        d \in {DescA, DescB}, n \in {<<1, 6>>, <<2, 5>>, <<4>>} }
    \cup { Entry(DescA, <<1, 0>>, <<1, 4>>, Date2020),
           Entry(DescA, <<1, 0>>, <<1, 0>>, Date2020),
           Entry(DescA, <<1, 0>>, <<2, 5>>, Date2019),
           Entry(DescA, <<1, 0>>, <<2, 5>>, DateBlank),
           Entry(DescA, <<1, 0>>, NotNumeric, Date2020),
           Entry(DescB, NotNumeric, <<4>>, Date2020),
           Entry(NotNumeric, NotNumeric, NotNumeric, NotNumeric) }

\* `entry` before the reader has yielded anything
NoEntry == Entry(<<>>, <<>>, <<>>, <<>>)

----------------------------------------------------------------------------
(* heapq *)

\* heap[i], heap[j] = heap[j], ... : the list with position i (0-based) set to x
SetAt(heap, i, x) == [heap EXCEPT ![i + 1] = x]

At(heap, i) == heap[i + 1]

RECURSIVE siftdown_loop(_, _, _, _)
siftdown_loop(heap, startpos, pos, newitem) ==
    IF pos > startpos
    THEN LET parentpos == (pos - 1) \div 2
             parent == At(heap, parentpos)
         IN  IF TupleLess(newitem, parent)
             THEN siftdown_loop(SetAt(heap, pos, parent), startpos, parentpos, newitem)
             ELSE SetAt(heap, pos, newitem)
    ELSE SetAt(heap, pos, newitem)

siftdown(heap, startpos, pos) == siftdown_loop(heap, startpos, pos, At(heap, pos))

RECURSIVE siftup_loop_left(_, _, _, _)
siftup_loop_left(heap, startpos, pos, newitem) ==
    LET endpos == Len(heap)
        childpos == 2 * pos + 1
    IN  IF childpos < endpos
        THEN siftup_loop_left(SetAt(heap, pos, At(heap, childpos)), startpos,
                              childpos, newitem)
        ELSE siftdown(SetAt(heap, pos, newitem), startpos, pos)

RECURSIVE siftup_loop(_, _, _, _)
siftup_loop(heap, startpos, pos, newitem) ==
    LET endpos == Len(heap)
        childpos == 2 * pos + 1
    IN  IF childpos < endpos
        THEN LET rightpos == childpos + 1
                 c == IF rightpos < endpos
                         /\ ~TupleLess(At(heap, childpos), At(heap, rightpos))
                      THEN rightpos ELSE childpos
             IN  siftup_loop(SetAt(heap, pos, At(heap, c)), startpos, c, newitem)
        ELSE siftdown(SetAt(heap, pos, newitem), startpos, pos)

siftup(heap, pos) == siftup_loop(heap, pos, pos, At(heap, pos))

heappushAppend(heap, item) == Append(heap, item)

heappush(heap, item) == siftdown(Append(heap, item), 0, Len(heap))

heappushpopNoPush(heap, item) ==
    IF Len(heap) > 0 /\ TupleLess(At(heap, 0), item)
    THEN SubSeq(heap, 2, Len(heap))
    ELSE heap

\* the list after heappushpop(heap, item)
heappushpop(heap, item) ==
    IF Len(heap) > 0 /\ TupleLess(At(heap, 0), item)
    THEN siftup(SetAt(heap, 0, item), 0)
    ELSE heap

\* heappop(heap): the item returned and the list left
heappop(heap) ==
    LET lastelt == heap[Len(heap)]
        rest == SubSeq(heap, 1, Len(heap) - 1)
    IN  IF Len(rest) > 0
        THEN [item |-> At(rest, 0), heap |-> siftup(SetAt(rest, 0, lastelt), 0)]
        ELSE [item |-> lastelt, heap |-> rest]

----------------------------------------------------------------------------
(* build_heaps_from_file *)

in_heap_never(heap, item) == FALSE

in_heap_first_only(heap, item) == Len(heap) > 0 /\ heap[1] = item

in_heap(heap, item) == \E i \in 1..Len(heap) : heap[i] = item

InYearSwapped(e, y) == EndsWith(StrOfInt(y), e.effective_date)

\* the date filter of the loop: the row is processed
InYear(e, y) == EndsWith(e.effective_date, StrOfInt(y))

IsIncrease(change) == change > 0

IsDecreaseNonZero(change) == change # 0

IsDecrease(change) == change < 0

ExceedsOrEqual(change, top_change) == change >= top_change

ExceedsReversed(change, top_change) == change < top_change

\* the candidate enters a full heap
Exceeds(change, top_change) == change > top_change

HasRoomOneShort(heap, cnt) == Len(heap) < cnt - 1

HasRoomOffByOne(heap, cnt) == Len(heap) <= cnt

\* len(heap) < count
HasRoom(heap, cnt) == Len(heap) < cnt

ParseFailsNewOnly(e) == ~Parseable(e.new_price)

\* float(entry["new_price"]) - float(entry["old_price"]) raises ValueError
ParseFails(e) == ~Parseable(e.new_price) \/ ~Parseable(e.old_price)

\* One branch of the loop body on one heap: the list afterwards and the
\* exception raised, if any.
Select(heap, item, cnt) ==
    IF in_heap(heap, item) THEN [heap |-> heap, exc |-> ""]
    ELSE IF HasRoom(heap, cnt) THEN [heap |-> heappush(heap, item), exc |-> ""]
    ELSE IF Len(heap) = 0 THEN [heap |-> heap, exc |-> "IndexError"]
    ELSE IF Exceeds(item[1], At(heap, 0)[1])
         THEN [heap |-> heappushpop(heap, item), exc |-> ""]
         ELSE [heap |-> heap, exc |-> ""]

\* One iteration of the loop over the reader: both lists afterwards and the
\* exception raised, if any.
LoopBody(inc, dec, e, y, cnt) ==
    IF ~InYear(e, y) THEN [inc |-> inc, dec |-> dec, exc |-> ""]
    ELSE IF ParseFails(e)
    THEN [inc |-> inc, dec |-> dec, exc |-> "ValueError"]
    ELSE LET change == Float(e.new_price) - Float(e.old_price)
             i == IF IsIncrease(change)
                  THEN Select(inc, <<change, e.ndc_desc>>, cnt)
                  ELSE [heap |-> inc, exc |-> ""]
             d == IF i.exc = "" /\ IsDecrease(change)
                  THEN Select(dec, <<-change, e.ndc_desc>>, cnt)
                  ELSE [heap |-> dec, exc |-> ""]
         IN  [inc |-> i.heap, dec |-> d.heap,
              exc |-> IF i.exc # "" THEN i.exc ELSE d.exc]

----------------------------------------------------------------------------
(* generate_partial_report *)

Abs(x) == IF x < 0 THEN -x ELSE x

\* round(change, 2): thousandths of a dollar to cents, ties to even
Round2(change) ==
    LET q == change \div 10
        r == change % 10
    IN  IF r > 5 \/ (r = 5 /\ q % 2 = 1) THEN q + 1 ELSE q

Header(cnt, type, y) == <<[kind |-> "header", count |-> cnt, type |-> type, year |-> y]>>

Sign(type) == IF type = REPORT_TYPE_DECREASES THEN "-" ELSE ""

\* f'{sign}${change:.2f}: {ndc_desc}' + NEWLINE
Line(sign, item) ==
    <<[kind |-> "line", sign |-> sign, cents |-> Abs(Round2(item[1])),
       ndc_desc |-> item[2]]>> \o NEWLINE

DrainingButOne(heap) == Len(heap) > 1

\* the condition of the drain loop
Draining(heap) == Len(heap) > 0

StaleLines == body_lines

\* body_lines = []
NoLines == <<>>

ReverseForgotten(s) == s

Reverse(s) == [i \in 1..Len(s) |-> s[Len(s) + 1 - i]]

RECURSIVE Join(_)
Join(strs) == IF Len(strs) = 0 THEN <<>> ELSE Head(strs) \o Join(Tail(strs))

\* header + NEWLINE + ''.join(body_lines[::-1])
PartialReport(cnt, type, y, lines) ==
    Header(cnt, type, y) \o NEWLINE \o Join(Reverse(lines))

ReportNoBlank(inc_report, dec_report) == inc_report \o dec_report

\* increases_report + "\n" + decreases_report
Report(inc_report, dec_report) == inc_report \o NEWLINE \o dec_report

----------------------------------------------------------------------------
(* generate_nadac_top_price_change_report: one call, and the call repeated *)

\* increases_heap, decreases_heap = [], []
NewHeap == <<>>

NoReport == <<>>

Returned(text) == [exc |-> "", value |-> text]

Raised(exc) == [exc |-> exc, value |-> NoReport]

Init ==
    /\ year \in Years
    /\ count \in 0..MaxCount
    /\ file = <<>>
    /\ row = 0
    /\ run = 1
    /\ entry = NoEntry
    /\ seen = {}
    /\ reoffered = FALSE
    /\ increases_heap = NewHeap
    /\ decreases_heap = NewHeap
    /\ pc = "build"
    /\ body_lines = <<>>
    /\ increases_report = NoReport
    /\ kept = [inc |-> <<>>, dec |-> <<>>]
    /\ results = <<>>

\* e carries a pair that an earlier record of this call carried and that the
\* selection of its direction does not hold
Reoffer(e) ==
    /\ InYear(e, year)
    /\ ~ParseFails(e)
    /\ \E x \in seen :
          /\ InYear(x, year)
          /\ ~ParseFails(x)
          /\ x.ndc_desc = e.ndc_desc
          /\ Float(x.new_price) - Float(x.old_price) = Float(e.new_price) - Float(e.old_price)
    /\ LET change == Float(e.new_price) - Float(e.old_price)
       IN  \/ change > 0 /\ ~in_heap(increases_heap, <<change, e.ndc_desc>>)
           \/ change < 0 /\ ~in_heap(decreases_heap, <<-change, e.ndc_desc>>)

\* The reader yields e and the loop body runs on it.
Step(e) ==
    LET r == LoopBody(increases_heap, decreases_heap, e, year, count)
    IN  /\ entry' = e
        /\ increases_heap' = r.inc
        /\ decreases_heap' = r.dec
        /\ row' = row + 1
        /\ seen' = seen \cup {e}
        /\ reoffered' = Reoffer(e)
        /\ IF r.exc = ""
           THEN UNCHANGED <<pc, results>>
           ELSE /\ pc' = "raised"
                /\ results' = Append(results, Raised(r.exc))
        /\ UNCHANGED <<year, count, file, run, body_lines, increases_report, kept>>

\* The reader is exhausted: build_heaps_from_file returns and the increases
\* section starts.
Exhausted ==
    /\ pc' = "drain_increases"
    /\ kept' = [inc |-> increases_heap, dec |-> decreases_heap]
    /\ body_lines' = NoLines
    /\ UNCHANGED <<year, count, file, row, run, entry, seen, reoffered, increases_heap,
                   decreases_heap, increases_report, results>>

StreamRecord ==
    /\ pc = "build"
    /\ row < MaxRecords
    /\ \E e \in Records : Step(e)

StreamEnd ==
    /\ pc = "build"
    /\ Exhausted

\* One iteration of the drain loop.
PopLine ==
    \/ /\ pc = "drain_increases"
       /\ Draining(increases_heap)
       /\ LET p == heappop(increases_heap)
          IN  /\ increases_heap' = p.heap
              /\ body_lines' = Append(body_lines, Line(Sign(REPORT_TYPE_INCREASES), p.item))
       /\ UNCHANGED decreases_heap
       /\ UNCHANGED <<year, count, file, row, run, entry, seen, reoffered, pc, increases_report,
                      kept, results>>
    \/ /\ pc = "drain_decreases"
       /\ Draining(decreases_heap)
       /\ LET p == heappop(decreases_heap)
          IN  /\ decreases_heap' = p.heap
              /\ body_lines' = Append(body_lines, Line(Sign(REPORT_TYPE_DECREASES), p.item))
       /\ UNCHANGED increases_heap
       /\ UNCHANGED <<year, count, file, row, run, entry, seen, reoffered, pc, increases_report,
                      kept, results>>

\* The increases section is returned and the decreases section starts.
ReturnIncreases ==
    /\ pc = "drain_increases"
    /\ ~Draining(increases_heap)
    /\ increases_report' = PartialReport(count, REPORT_TYPE_INCREASES, year, body_lines)
    /\ body_lines' = NoLines
    /\ pc' = "drain_decreases"
    /\ UNCHANGED <<year, count, file, row, run, entry, seen, reoffered, increases_heap,
                   decreases_heap, kept, results>>

\* The decreases section is returned and the call returns the report.
ReturnDecreases ==
    /\ pc = "drain_decreases"
    /\ ~Draining(decreases_heap)
    /\ results' = Append(results,
          Returned(Report(increases_report,
                          PartialReport(count, REPORT_TYPE_DECREASES, year, body_lines))))
    /\ pc' = "done"
    /\ UNCHANGED <<year, count, file, row, run, entry, seen, reoffered, increases_heap,
                   decreases_heap, body_lines, increases_report, kept>>

Next == StreamRecord \/ StreamEnd \/ PopLine \/ ReturnIncreases \/ ReturnDecreases

Spec == Init /\ [][Next]_vars

\* One call that keeps running: the program is sequential and no step of the
\* rendering waits for anything.
SpecLive ==
    /\ Init
    /\ [][Next]_vars
    /\ WF_vars(PopLine)
    /\ WF_vars(ReturnIncreases)
    /\ WF_vars(ReturnDecreases)

----------------------------------------------------------------------------
(* The same file read by two calls in a row *)

RECURSIVE SeqsUpTo(_, _)
SeqsUpTo(S, n) ==
    IF n = 0 THEN {<<>>}
    ELSE LET shorter == SeqsUpTo(S, n - 1)
         IN  shorter \cup {Append(s, x) : s \in shorter, x \in S}

InitTwice ==
    /\ year \in Years
    /\ count \in 0..MaxCount
    /\ file \in SeqsUpTo(Records, MaxFile)
    /\ row = 0
    /\ run = 1
    /\ entry = NoEntry
    /\ seen = {}
    /\ reoffered = FALSE
    /\ increases_heap = NewHeap
    /\ decreases_heap = NewHeap
    /\ pc = "build"
    /\ body_lines = <<>>
    /\ increases_report = NoReport
    /\ kept = [inc |-> <<>>, dec |-> <<>>]
    /\ results = <<>>

FileRecord ==
    /\ pc = "build"
    /\ row < Len(file)
    /\ Step(file[row + 1])

FileEnd ==
    /\ pc = "build"
    /\ row = Len(file)
    /\ Exhausted

\* The first call is over (returned or raised); the second call starts.
CallAgain ==
    /\ pc \in {"done", "raised"}
    /\ run = 1
    /\ run' = 2
    /\ row' = 0
    /\ entry' = NoEntry
    /\ seen' = {}
    /\ reoffered' = FALSE
    /\ increases_heap' = NewHeap
    /\ decreases_heap' = NewHeap
    /\ pc' = "build"
    /\ increases_report' = NoReport
    /\ kept' = [inc |-> <<>>, dec |-> <<>>]
    /\ UNCHANGED <<year, count, file, body_lines, results>>

NextTwice ==
    FileRecord \/ FileEnd \/ PopLine \/ ReturnIncreases \/ ReturnDecreases \/ CallAgain

SpecTwice == InitTwice /\ [][NextTwice]_vars

----------------------------------------------------------------------------
(* Vocabulary of the properties *)

Items(heap) == {heap[i] : i \in 1..Len(heap)}

Magnitudes(heap) == {heap[i][1] : i \in 1..Len(heap)}

\* the smallest kept magnitude of a non-empty selection
MinKept(heap) == CHOOSE m \in Magnitudes(heap) : \A n \in Magnitudes(heap) : m <= n

\* the text s ends with the decimal representation of y
HasYearSuffix(s, y) ==
    LET digits == StrOfInt(y)
        k == Len(s) - Len(digits)
    IN  /\ k >= 0
        /\ \A i \in 1..Len(digits) : s[k + i] = digits[i]

Change(e) == Float(e.new_price) - Float(e.old_price)

\* the record passes the date filter and both prices are numbers
Eligible(e) ==
    /\ HasYearSuffix(e.effective_date, year)
    /\ Parseable(e.old_price)
    /\ Parseable(e.new_price)

\* the (magnitude, description) pairs of the eligible records seen, by direction
EligibleIncreases == {<<Change(e), e.ndc_desc>> : e \in {x \in seen : Eligible(x) /\ Change(x) > 0}}

EligibleDecreases == {<<-Change(e), e.ndc_desc>> : e \in {x \in seen : Eligible(x) /\ Change(x) < 0}}

Accumulated == pc \in {"drain_increases", "drain_decreases", "done"}

\* the step is one iteration of the loop of build_heaps_from_file
RecordProcessed == pc = "build" /\ row' = row + 1

----------------------------------------------------------------------------
(* C1: whatever the records and the count, each of the two selections holds
   at most count entries, after every processed record and when
   build_heaps_from_file returns. *)
C1_AtMostCount ==
    /\ Len(increases_heap) <= count
    /\ Len(decreases_heap) <= count
    /\ Len(kept.inc) <= count
    /\ Len(kept.dec) <= count

C1_Witness ==
    /\ pc = "build"
    /\ count >= 2
    /\ Len(increases_heap) = count
    /\ Cardinality(EligibleIncreases) > count

(* C2: when accumulation ends, every eligible increase that is not in the
   increases selection has a change no larger than the smallest kept
   increase, and every eligible decrease that is not in the decreases
   selection has a magnitude no larger than the smallest kept decrease. *)
OmittedBelowKept(eligible, heap) ==
    \A item \in eligible \ Items(heap) :
        /\ Len(heap) > 0
        /\ item[1] <= MinKept(heap)

C2_OmittedNotLarger ==
    Accumulated =>
        /\ OmittedBelowKept(EligibleIncreases, kept.inc)
        /\ OmittedBelowKept(EligibleDecreases, kept.dec)

C2_Witness ==
    /\ pc = "drain_increases"
    /\ EligibleIncreases \ Items(kept.inc) # {}
    /\ EligibleDecreases \ Items(kept.dec) # {}

(* C3: a selection never holds the same (magnitude, description) pair twice,
   and a record whose pair is already held leaves that selection as it was. *)
NoDuplicates(heap) == \A i, j \in 1..Len(heap) : heap[i] = heap[j] => i = j

DuplicateDropped ==
    RecordProcessed /\ Eligible(entry') =>
        /\ (Change(entry') > 0 /\ <<Change(entry'), entry'.ndc_desc>> \in Items(increases_heap))
              => increases_heap' = increases_heap
        /\ (Change(entry') < 0 /\ <<-Change(entry'), entry'.ndc_desc>> \in Items(decreases_heap))
              => decreases_heap' = decreases_heap

C3_NoDuplicate ==
    /\ [](NoDuplicates(increases_heap) /\ NoDuplicates(decreases_heap))
    /\ [][DuplicateDropped]_vars

\* a pair held at a position other than the first has just been offered again
C3_Witness ==
    /\ pc = "build"
    /\ Eligible(entry)
    /\ Change(entry) > 0
    /\ Len(increases_heap) = 3
    /\ row = 4
    /\ Cardinality(seen) = 3
    /\ Cardinality(EligibleIncreases) = 3
    /\ increases_heap[1] # <<Change(entry), entry.ndc_desc>>

(* C4: in each section of a returned report the body lines run from the
   largest amount to the smallest: of two consecutive body lines the earlier
   never shows a smaller amount than the later. *)
BodyLines(text, sign) ==
    SelectSeq(text, LAMBDA t : t.kind = "line" /\ t.sign = sign)

NonIncreasing(lines) ==
    \A i \in 1..(Len(lines) - 1) : lines[i].cents >= lines[i + 1].cents

C4_LargestFirst ==
    \A i \in 1..Len(results) :
        results[i].exc = "" =>
            /\ NonIncreasing(BodyLines(results[i].value, ""))
            /\ NonIncreasing(BodyLines(results[i].value, "-"))

C4_Witness ==
    /\ pc = "done"
    /\ Len(results) = 1
    /\ LET inc == BodyLines(results[1].value, "")
           dec == BodyLines(results[1].value, "-")
       IN  /\ Len(inc) = 2
           /\ inc[1].cents > inc[2].cents
           /\ Len(dec) = 2
           /\ dec[1].cents = dec[2].cents

(* C5: a record whose effective date does not end with the digits of the
   target year (an empty date included) changes neither selection and raises
   no error. *)
C5_FilteredStep ==
    (RecordProcessed /\ ~HasYearSuffix(entry'.effective_date, year)) =>
        /\ increases_heap' = increases_heap
        /\ decreases_heap' = decreases_heap
        /\ pc' = "build"
        /\ results' = results

C5_DateFilter == [][C5_FilteredStep]_vars

\* a record with an empty date has just been skipped while a selection held entries
C5_Witness ==
    /\ pc = "build"
    /\ entry \in Records
    /\ entry.effective_date = DateBlank
    /\ Len(increases_heap) > 0
    /\ Len(increases_heap) < count

(* C6: one record changes at most one of the two selections: a positive
   change leaves the decreases selection alone, a negative change leaves the
   increases selection alone, a zero change leaves both alone. *)
C6_OneSelectionStep ==
    RecordProcessed =>
        /\ increases_heap' = increases_heap \/ decreases_heap' = decreases_heap
        /\ (Parseable(entry'.old_price) /\ Parseable(entry'.new_price)) =>
              /\ Change(entry') > 0 => decreases_heap' = decreases_heap
              /\ Change(entry') < 0 => increases_heap' = increases_heap
              /\ Change(entry') = 0 =>
                    /\ increases_heap' = increases_heap
                    /\ decreases_heap' = decreases_heap

C6_AtMostOneSelection == [][C6_OneSelectionStep]_vars

\* a record of zero change has just been processed while both selections had room
C6_Witness ==
    /\ pc = "build"
    /\ Eligible(entry)
    /\ Change(entry) = 0
    /\ Len(increases_heap) > 0
    /\ Len(decreases_heap) > 0
    /\ Len(increases_heap) < count
    /\ Len(decreases_heap) < count

(* C7: with count = 0 every input yields the report made of the two header
   lines with empty bodies, and no error.  Stated for inputs whose prices are
   all numbers, where no parse error can be the cause. *)
TwoHeaders ==
    Header(0, REPORT_TYPE_INCREASES, year) \o NEWLINE \o NEWLINE
        \o Header(0, REPORT_TYPE_DECREASES, year) \o NEWLINE

C7_CountZeroTwoHeaders ==
    (/\ count = 0
     /\ \A e \in seen : Parseable(e.old_price) /\ Parseable(e.new_price))
    => /\ pc # "raised"
       /\ \A i \in 1..Len(results) : results[i] = Returned(TwoHeaders)

(* C8 as claimed: whenever a record with a price that is not a number has
   been read, the run has aborted with an error. *)
HasBadPrice(e) == ~Parseable(e.old_price) \/ ~Parseable(e.new_price)

C8_AnyBadPriceAborts ==
    (\E e \in seen : HasBadPrice(e)) => pc = "raised"

(* C8 amended: whenever a record whose effective date ends with the target
   year has a price that is not a number, the run aborts on that record with
   an error and returns no report text. *)
C8_BadPriceInYearAborts ==
    (\E e \in seen : HasBadPrice(e) /\ HasYearSuffix(e.effective_date, year)) =>
        /\ pc = "raised"
        /\ HasBadPrice(entry)
        /\ results = <<Raised("ValueError")>>

\* an old price that is not a number stops the run after other records were kept
C8_Witness ==
    /\ pc = "raised"
    /\ results = <<Raised("ValueError")>>
    /\ ~Parseable(entry.old_price)
    /\ Parseable(entry.new_price)
    /\ Len(increases_heap) > 0
    /\ Len(decreases_heap) > 0

(* C9: the returned report, line by line, is the increases header, one line
   per kept increase without a minus sign, one blank line, the decreases
   header, one line per kept decrease with the minus sign; nothing else, and
   no other blank line. *)
RECURSIVE FirstNewline(_, _)
FirstNewline(text, k) ==
    IF k > Len(text) \/ text[k].kind = "newline" THEN k ELSE FirstNewline(text, k + 1)

\* the lines of a text whose lines are ended by line breaks
RECURSIVE SplitLines(_)
SplitLines(text) ==
    IF Len(text) = 0 THEN <<>>
    ELSE LET k == FirstNewline(text, 1)
         IN  <<SubSeq(text, 1, k - 1)>> \o SplitLines(SubSeq(text, k + 1, Len(text)))

IsBodyLine(line, sign) ==
    /\ Len(line) = 1
    /\ line[1].kind = "line"
    /\ line[1].sign = sign

Shown(lines, from, n) == {<<lines[from + i][1].cents, lines[from + i][1].ndc_desc>> : i \in 1..n}

Rendered(heap) == {<<Round2(item[1]), item[2]>> : item \in Items(heap)}

C9_ReportLayout ==
    pc = "done" =>
        LET text == results[Len(results)].value
            lines == SplitLines(text)
            n == Len(kept.inc)
            m == Len(kept.dec)
        IN  /\ results[Len(results)].exc = ""
            /\ text[Len(text)].kind = "newline"
            /\ Len(lines) = n + m + 3
            /\ lines[1] = Header(count, REPORT_TYPE_INCREASES, year)
            /\ \A i \in 1..n : IsBodyLine(lines[1 + i], "")
            /\ lines[n + 2] = <<>>
            /\ lines[n + 3] = Header(count, REPORT_TYPE_DECREASES, year)
            /\ \A i \in 1..m : IsBodyLine(lines[n + 3 + i], "-")
            /\ Shown(lines, 1, n) = Rendered(kept.inc)
            /\ Shown(lines, n + 3, m) = Rendered(kept.dec)

C9_Witness ==
    /\ pc = "done"
    /\ Len(kept.inc) = 2
    /\ Len(kept.dec) = 2

(* C10: two calls in a row over the same file with the same year and count
   end the same way, with identical report text. *)
C10_SameReportTwice ==
    Len(results) = 2 => results[1] = results[2]

C10_Witness ==
    /\ Len(results) = 2
    /\ results[2].exc = ""
    /\ Len(BodyLines(results[2].value, "")) = 1
    /\ Len(BodyLines(results[2].value, "-")) = 1

(* C11: when a selection already holds count entries and a record brings a
   pair it does not hold: if the pair's magnitude is strictly greater than
   the smallest kept magnitude, that one step removes an entry of smallest
   magnitude, inserts the pair and leaves the size at count; otherwise the
   selection is left as it was. *)
FullSelectionStep(heap, after, cand) ==
    (Len(heap) = count /\ cand \notin Items(heap)) =>
        IF Len(heap) > 0 /\ cand[1] > MinKept(heap)
        THEN /\ Len(after) = count
             /\ \E out \in Items(heap) :
                   /\ out[1] = MinKept(heap)
                   /\ Items(after) = (Items(heap) \ {out}) \cup {cand}
        ELSE after = heap

C11_FullStep ==
    (RecordProcessed /\ Eligible(entry')) =>
        /\ Change(entry') > 0 =>
              FullSelectionStep(increases_heap, increases_heap',
                                <<Change(entry'), entry'.ndc_desc>>)
        /\ Change(entry') < 0 =>
              FullSelectionStep(decreases_heap, decreases_heap',
                                <<-Change(entry'), entry'.ndc_desc>>)

C11_ReplaceOrDiscard == [][C11_FullStep]_vars

\* three different increases have come to a selection of two and the last one is held
C11_Witness ==
    /\ pc = "build"
    /\ count = 2
    /\ row = 3
    /\ Cardinality(seen) = 3
    /\ Cardinality(EligibleIncreases) = 3
    /\ Len(increases_heap) = 2
    /\ <<Change(entry), entry.ndc_desc>> \in Items(increases_heap)

(* C12: while a selection holds fewer than count entries, every eligible
   record of its direction whose pair it does not hold is inserted whatever
   its magnitude, so the selection is exactly the set of distinct pairs of
   the eligible records of that direction seen so far. *)
AllKeptWhileRoom ==
    pc = "build" =>
        /\ Len(increases_heap) < count => Items(increases_heap) = EligibleIncreases
        /\ Len(decreases_heap) < count => Items(decreases_heap) = EligibleDecreases

InsertedWhileRoom(heap, after, cand) ==
    (Len(heap) < count /\ cand \notin Items(heap)) =>
        /\ Items(after) = Items(heap) \cup {cand}
        /\ Len(after) = Len(heap) + 1

C12_RoomStep ==
    (RecordProcessed /\ Eligible(entry')) =>
        /\ Change(entry') > 0 =>
              InsertedWhileRoom(increases_heap, increases_heap',
                                <<Change(entry'), entry'.ndc_desc>>)
        /\ Change(entry') < 0 =>
              InsertedWhileRoom(decreases_heap, decreases_heap',
                                <<-Change(entry'), entry'.ndc_desc>>)

C12_InsertWhileRoom == []AllKeptWhileRoom /\ [][C12_RoomStep]_vars

\* the second increase to arrive is smaller than the first and is held all the same
C12_Witness ==
    /\ pc = "build"
    /\ count = 3
    /\ row = 2
    /\ Len(increases_heap) = 2
    /\ Eligible(entry)
    /\ Change(entry) = MinKept(increases_heap)
    /\ Cardinality(Magnitudes(increases_heap)) = 2

(* C13 as claimed: among entries of equal magnitude the one admitted first is
   kept, so when a strictly larger pair arrives at a full selection whose
   smallest magnitude is shared by several entries, the entries admitted
   before the latest of them stay.  Stated for the runs in which every record
   so far was admitted, where `entry` is the latest admission. *)
LatestAdmitted == <<Change(entry), entry.ndc_desc>>

TieAtMinimum ==
    /\ pc = "build"
    /\ row = Len(increases_heap) + Len(decreases_heap)
    /\ Len(increases_heap) = count
    /\ Eligible(entry)
    /\ Change(entry) > 0
    /\ Change(entry) = MinKept(increases_heap)
    /\ \E t \in Items(increases_heap) : t # LatestAdmitted /\ t[1] = Change(entry)

LargerArrives ==
    /\ RecordProcessed
    /\ Eligible(entry')
    /\ Change(entry') > MinKept(increases_heap)
    /\ <<Change(entry'), entry'.ndc_desc>> \notin Items(increases_heap)

C13_FirstAdmittedKept ==
    [][(TieAtMinimum /\ LargerArrives) =>
          \A t \in Items(increases_heap) :
              (t # LatestAdmitted /\ t[1] = MinKept(increases_heap))
                  => t \in Items(increases_heap')]_vars

(* C13 amended: entries of equal magnitude are told apart by their
   description, not by their arrival: the entry that a strictly larger pair
   evicts from a full selection is the least (magnitude, description) pair
   held, and each section of the report lists the kept pairs from the
   greatest (magnitude, description) to the least. *)
DescBefore(s, t) ==
    \E k \in 1..(Len(t)) :
        /\ \A i \in 1..(k - 1) : i <= Len(s) /\ s[i] = t[i]
        /\ k > Len(s) \/ s[k] < t[k]

PairBefore(x, y) == x[1] < y[1] \/ (x[1] = y[1] /\ DescBefore(x[2], y[2]))

LeastPairEvicted(heap, after, cand) ==
    (Len(heap) = count /\ Len(heap) > 0 /\ cand \notin Items(heap)
        /\ cand[1] > MinKept(heap)) =>
        \E out \in Items(heap) :
            /\ \A t \in Items(heap) \ {out} : PairBefore(out, t)
            /\ Items(after) = (Items(heap) \ {out}) \cup {cand}

C13_EvictionStep ==
    (RecordProcessed /\ Eligible(entry')) =>
        /\ Change(entry') > 0 =>
              LeastPairEvicted(increases_heap, increases_heap',
                               <<Change(entry'), entry'.ndc_desc>>)
        /\ Change(entry') < 0 =>
              LeastPairEvicted(decreases_heap, decreases_heap',
                               <<-Change(entry'), entry'.ndc_desc>>)

\* the pairs of a set from the greatest to the least
RECURSIVE Descending(_)
Descending(S) ==
    IF S = {} THEN <<>>
    ELSE LET top == CHOOSE x \in S : \A y \in S \ {x} : PairBefore(y, x)
         IN  <<top>> \o Descending(S \ {top})

ShownInOrder(lines) == [i \in 1..Len(lines) |-> <<lines[i].cents, lines[i].ndc_desc>>]

RenderedInOrder(heap) ==
    LET d == Descending(Items(heap))
    IN  [i \in 1..Len(d) |-> <<Round2(d[i][1]), d[i][2]>>]

SectionsByPairOrder ==
    pc = "done" =>
        /\ ShownInOrder(BodyLines(results[Len(results)].value, "")) = RenderedInOrder(kept.inc)
        /\ ShownInOrder(BodyLines(results[Len(results)].value, "-")) = RenderedInOrder(kept.dec)

C13_TiesByDescription == []SectionsByPairOrder /\ [][C13_EvictionStep]_vars

\* of two increases of equal magnitude one has been evicted by a larger increase
C13_Witness ==
    /\ pc = "build"
    /\ count = 2
    /\ row = 3
    /\ Len(increases_heap) = 2
    /\ Eligible(entry)
    /\ LatestAdmitted \in Items(increases_heap)
    /\ \E t \in Items(increases_heap), u \in EligibleIncreases \ Items(increases_heap) :
          /\ t[1] = u[1]
          /\ t[1] < Change(entry)

(* C14: within a call each selection goes once from being filled to being
   drained and never back: once rendering has begun nothing is inserted into
   either selection, each drain loop ends with its selection empty after
   exactly one body line per entry that was held, and rendering, once begun,
   reaches the end of the call. *)
C14_Step ==
    /\ pc # "build" => pc' # "build"
    /\ Accumulated =>
          /\ Items(increases_heap') \subseteq Items(increases_heap)
          /\ Items(decreases_heap') \subseteq Items(decreases_heap)
          /\ Len(increases_heap') <= Len(increases_heap)
          /\ Len(decreases_heap') <= Len(decreases_heap)
    /\ (pc = "drain_increases" /\ pc' # pc) =>
          /\ pc' = "drain_decreases"
          /\ increases_heap = <<>>
          /\ Len(body_lines) = Len(kept.inc)
    /\ (pc = "drain_decreases" /\ pc' # pc) =>
          /\ pc' = "done"
          /\ decreases_heap = <<>>
          /\ Len(body_lines) = Len(kept.dec)

C14_FillThenDrain ==
    /\ [][C14_Step]_vars
    /\ (pc = "drain_increases") ~> (pc = "done")

C14_Witness ==
    /\ pc = "done"
    /\ Len(kept.inc) = 3
    /\ Len(kept.dec) = 1
    /\ increases_heap = <<>>
    /\ decreases_heap = <<>>

(* C15: for count >= 1, when accumulation ends the magnitudes held by a
   selection, counted with their multiplicity, are the min(count, |D|)
   largest magnitudes of D, the set of distinct pairs of the eligible records
   of that direction; the amounts of a rendered section are therefore the
   same whatever the order of the records. *)
Smaller(a, b) == IF a < b THEN a ELSE b

\* the magnitudes of the k greatest pairs of D, greatest first
TopMagnitudes(D, k) ==
    LET d == Descending(D)
    IN  [i \in 1..Smaller(k, Len(d)) |-> d[i][1]]

Occurrences(magnitudes, m) == Cardinality({i \in 1..Len(magnitudes) : magnitudes[i] = m})

HeldMagnitudes(heap) == [i \in 1..Len(heap) |-> heap[i][1]]

SameMultiset(a, b) ==
    /\ Len(a) = Len(b)
    /\ \A i \in 1..Len(a) : Occurrences(a, a[i]) = Occurrences(b, a[i])

ShownAmounts(lines) == [i \in 1..Len(lines) |-> lines[i].cents]

C15_TopMagnitudes ==
    (Accumulated /\ count >= 1) =>
        /\ SameMultiset(HeldMagnitudes(kept.inc), TopMagnitudes(EligibleIncreases, count))
        /\ SameMultiset(HeldMagnitudes(kept.dec), TopMagnitudes(EligibleDecreases, count))
        /\ pc = "done" =>
              LET text == results[Len(results)].value
                  inc == TopMagnitudes(EligibleIncreases, count)
                  dec == TopMagnitudes(EligibleDecreases, count)
              IN  /\ ShownAmounts(BodyLines(text, "")) = [i \in 1..Len(inc) |-> Round2(inc[i])]
                  /\ ShownAmounts(BodyLines(text, "-")) = [i \in 1..Len(dec) |-> Round2(dec[i])]

\* three distinct increases and a repeated record have come to a selection of two
C15_Witness ==
    /\ pc = "done"
    /\ count = 2
    /\ row = 4
    /\ Cardinality(seen) = 3
    /\ Cardinality(EligibleIncreases) = 3
    /\ Len(kept.inc) = 2

(* C16: each distinct pair is inserted into a selection at most once in a
   call: a record whose pair an earlier record already carried never inserts
   it, be the pair still held, evicted since, or turned away when it came. *)
Inserted(heap, after) == Items(after) \ Items(heap)

C16_Step ==
    RecordProcessed =>
        /\ Inserted(increases_heap, increases_heap') \cap EligibleIncreases = {}
        /\ Inserted(decreases_heap, decreases_heap') \cap EligibleDecreases = {}

C16_InsertedOnce == [][C16_Step]_vars

\* a pair that a full selection no longer holds, or never took, has come again
C16_Witness ==
    /\ pc = "build"
    /\ reoffered
    /\ count >= 1
    /\ Eligible(entry)
    /\ Change(entry) > 0
    /\ Len(increases_heap) = count
    /\ <<Change(entry), entry.ndc_desc>> \notin Items(increases_heap)

(* C17: from one record to the next the size of a selection never
   decreases, a selection that holds count entries goes on holding exactly
   count, and from then on its smallest kept magnitude never decreases. *)
Monotone(heap, after) ==
    /\ Len(after) >= Len(heap)
    /\ Len(heap) = count =>
          /\ Len(after) = count
          /\ Len(heap) > 0 => MinKept(after) >= MinKept(heap)

C17_Step ==
    RecordProcessed =>
        /\ Monotone(increases_heap, increases_heap')
        /\ Monotone(decreases_heap, decreases_heap')

C17_SizeAndMinimumGrow == [][C17_Step]_vars

\* a larger increase has taken the place of the only increase held
C17_Witness ==
    /\ pc = "build"
    /\ count = 1
    /\ row = 2
    /\ Cardinality(EligibleIncreases) = 2
    /\ Eligible(entry)
    /\ increases_heap = <<(<<Change(entry), entry.ndc_desc>>)>>
    /\ \E u \in EligibleIncreases : u[1] < Change(entry)

(* C18: after every heappush and heappushpop each selection list is a
   min-heap of (magnitude, description) pairs, so the entry at index 0, which
   the test of a full selection reads, has the smallest magnitude held. *)
IsMinHeap(heap) ==
    \A i \in 2..Len(heap) : ~PairBefore(heap[i], heap[i \div 2])

RootIsMinimum(heap) == Len(heap) > 0 => heap[1][1] = MinKept(heap)

C18_HeapOrder ==
    /\ IsMinHeap(increases_heap)
    /\ IsMinHeap(decreases_heap)
    /\ RootIsMinimum(increases_heap)
    /\ RootIsMinimum(decreases_heap)

\* a fourth increase has replaced the root of a heap of three
C18_Witness ==
    /\ pc = "build"
    /\ count = 3
    /\ row = 4
    /\ Cardinality(EligibleIncreases) = 4
    /\ Len(increases_heap) = 3
    /\ Eligible(entry)
    /\ <<Change(entry), entry.ndc_desc>> \in Items(increases_heap)
    /\ increases_heap[1] # <<Change(entry), entry.ndc_desc>>

====
